---- MODULE Spec2Model ----
(***************************************************************************)
(* Model of sienna_grabber: the crawl loop of vehicles.py                  *)
(* (update_vehicles, get_all_pages, query_toyota) and the credential       *)
(* capture of wafbypass.py (WAFBypass).                                    *)
(*                                                                         *)
(* Time is a discrete monotonic clock (timer(), vehicles.py:8); blocking   *)
(* calls (WAFBypass.run, requests.post, sleep) are the points where the    *)
(* process position pc rests and the clock advances.                       *)
(***************************************************************************)
EXTENDS Integers, Sequences, FiniteSets, TLC

\* ----------------------------------------------------------------- bounds
\* Longest vehicleSummary list one response carries.
MaxPageLen == 2
\* Pages up to this index may bring MaxPageLen unseen vins; later pages bring
\* at most one unseen vin each.
MaxRichPage == 1
\* Listings whose payload the API may change between two servings (vins
\* 1..MaxVarVin); they are also the listings the API may serve again.
MaxVarVin == 1
\* Longest sequence of requests the browser visit lets intercept_request see.
MaxRequests == 2
\* Time from the start of the visit to the capture of the headers.
CaptureDelay == 5
\* Longest time from the capture of the headers to the return of run().
MaxTailDelay == 65
\* An external stop request arrives after at most this many completed fetches.
MaxCancelAt == 1
\* Pages up to this index may take the whole timeout to answer; later pages
\* answer at once.
MaxSlowPage == 1

\* ------------------------------------------------------ program constants
PageCeiling == 40
RenewalThreshold == 4 * 60
ValidityWindow == 5 * 60
FetchTimeout == 15
InterPageDelay == 10

\* ------------------------------------------------------------ environment
NoneValue == "None"
ParamValues == {NoneValue, "", "set"}

Payloads == {"a", "b"}

Min(a, b) == IF a < b THEN a ELSE b

VARIABLES
    MODEL, ZIPCODE, DISTANCE,   \* module globals read from the environment
    pc,                         \* position of the process
    now,                        \* the monotonic clock
    df,                         \* accumulated records (sequence of [vin, payload])
    page_number,
    headers,                    \* current credential, Unset before the first acquisition
    timer_start,
    last_run_counter,
    issuedAt,                   \* ghost: capture time of the current credential
    runCalls,                   \* ghost: calls of WAFBypass.run
    fetchLog,                   \* ghost: page index of every query_toyota call, in order
    lastFetch,                  \* ghost: the latest query_toyota call
    fetchesDone,                \* ghost: query_toyota calls that have come back
    summary,                    \* the vehicleSummary handed to a merge on its own (SpecMerge)
    seenRequests,               \* the requests handed to a run() on its own (SpecRun)
    returned,                   \* ghost: what get_all_pages handed back
    cancelAt                    \* ghost: completed fetches when the stop request came, -1 if none

vars == <<MODEL, ZIPCODE, DISTANCE, pc, now, df, page_number, headers, timer_start,
          last_run_counter, issuedAt, runCalls, fetchLog, lastFetch, fetchesDone, summary,
          seenRequests, returned, cancelAt>>

\* --------------------------------------------------------- pure operators

\* A presence test that lets the empty string through.
Truthy_NotNone(v) == v # NoneValue

\* Python truthiness of an environment value: None and "" are falsy.
Truthy(v) == v # NoneValue /\ v # ""

Vins(s) == {s[i].vin : i \in 1..Len(s)}

\* drop_duplicates as it would be with keep="last".
DropDuplicates_KeepLast(s) ==
    LET F[i \in 0..Len(s)] ==
            IF i = 0 THEN <<>>
            ELSE IF \E j \in (i + 1)..Len(s) : s[j].vin = s[i].vin
                 THEN F[i - 1]
                 ELSE Append(F[i - 1], s[i])
    IN F[Len(s)]

\* DataFrame.drop_duplicates(subset=["vin"]): keep="first" is the default.
DropDuplicates(s) ==
    LET F[i \in 0..Len(s)] ==
            IF i = 0 THEN <<>>
            ELSE IF \E j \in 1..(i - 1) : s[j].vin = s[i].vin
                 THEN F[i - 1]
                 ELSE Append(F[i - 1], s[i])
    IN F[Len(s)]

\* pd.concat([df, pd.json_normalize(result["vehicleSummary"])])
Concat(d, records) == d \o records

\* query_toyota after requests.post returned resp (it raises before line 62
\* when resp.kind = "exception"; that case is handled by the caller's action).
NoResult == [tag |-> "None", vehicleSummary |-> <<>>]
query_toyota(resp) ==
    IF resp.kind \in {"challenge", "nodata"}
    THEN NoResult                                   \* except branch, line 64-67
    ELSE IF resp.kind \in {"nullresult", "nosummary"}
    THEN NoResult                                   \* line 69-71
    ELSE [tag |-> "dict", vehicleSummary |-> resp.vehicleSummary]

\* The PageResult variant of the spec a response falls under.
Classify(resp) ==
    CASE resp.kind = "exception" -> "TransientError"
      [] resp.kind = "challenge" -> "Blocked"
      [] resp.kind \in {"nodata", "nullresult", "nosummary"} -> "EmptyOrMalformed"
      [] OTHER -> IF resp.vehicleSummary = <<>> THEN "EmptyOrMalformed" ELSE "Success"

\* Lines 110-114 without the drop_duplicates of line 117.
Merge_NoDedup(d, result) ==
    IF result.tag = "dict" THEN Concat(d, result.vehicleSummary) ELSE d

\* Lines 110-117: merge a result into df and drop duplicate vins.
Merge(d, result) ==
    DropDuplicates(IF result.tag = "dict"
                   THEN Concat(d, result.vehicleSummary)
                   ELSE d)

\* Line 96 with the comparison off by one.
PastCeiling_OffByOne(page) == page > PageCeiling + 1

\* Line 96: Toyota's API won't return any vehicles past page 40.
PastCeiling(page) == page > PageCeiling

\* Line 101 with the comparison turned into "at least".
RenewalDue_AtThreshold(elapsed_time) == elapsed_time >= RenewalThreshold

\* Lines 100-101: the bypass is refreshed once more than 4 minutes have passed.
RenewalDue(elapsed_time) == elapsed_time > RenewalThreshold

\* Line 122 with the comparison turned into "fewer than".
Converged_Fewer(merged, counter) == Len(merged) < counter

\* Line 122: no more cars than after the previous run.
Converged(merged, counter) == Len(merged) = counter

\* --------------------------------------------------- what the API can serve
\* Vins are numbered in the order the crawl first sees them, so a record is
\* either a listing already seen or the next unseen one. A page serves at
\* most one listing again, ahead of the unseen ones.
Rec(v, p) == [vin |-> v, payload |-> p]

Relists(known) ==
    {<<>>} \cup {<<Rec(v, p)>> : v \in 1..Min(known, MaxVarVin), p \in Payloads}

FreshRuns(known, k) ==
    {[i \in 1..k |-> Rec(known + i, f[i])] :
        f \in {g \in [1..k -> Payloads] : \A i \in 1..k : known + i > MaxVarVin => g[i] = "a"}}

FreshLimit(page) == IF page <= MaxRichPage THEN MaxPageLen ELSE 1

Summaries(d, page) ==
    LET known == Cardinality(Vins(d))
    IN UNION {{r \o f : f \in UNION {FreshRuns(known, k) :
                                         k \in 0..Min(FreshLimit(page), MaxPageLen - Len(r))}} :
              r \in Relists(known)}

Responses(d, page) ==
    {[kind |-> k, vehicleSummary |-> <<>>] :
        k \in {"exception", "challenge", "nodata", "nullresult", "nosummary"}}
    \cup {[kind |-> "ok", vehicleSummary |-> s] : s \in Summaries(d, page)}

FetchLatencies(page) == IF page <= MaxSlowPage THEN {0, FetchTimeout} ELSE {0}

\* ------------------------------------------------------------- WAFBypass
\* A request the page makes during the visit: its resource type and whether
\* its url ends with "/graphql".
RequestShapes == {"xhr", "document"} \X BOOLEAN

\* The requests intercept_request sees during the visit of acquisition number
\* serial, in order; the i-th carries its own headers [serial, i].
Visits(serial) ==
    UNION {{[i \in 1..n |-> [resource_type |-> f[i][1], graphql |-> f[i][2],
                             headers |-> [serial |-> serial, seq |-> i]]] :
                f \in [1..n -> RequestShapes]} :
           n \in 0..MaxRequests}

Unset == [serial |-> 0, seq |-> 0]

\* intercept_request: keep the headers of a matching request.
intercept_request(valid_headers, request) ==
    IF request.resource_type = "xhr" /\ request.graphql
    THEN request.headers
    ELSE valid_headers

\* get_headers on an instance kept from the acquisition before: valid_headers
\* starts as the headers that acquisition captured.
get_headers_Reused(visit) ==
    LET F[i \in 0..Len(visit)] ==
            IF i = 0 THEN headers ELSE intercept_request(F[i - 1], visit[i])
    IN F[Len(visit)]

\* get_headers on a fresh instance: valid_headers after the visit.
get_headers(visit) ==
    LET F[i \in 0..Len(visit)] ==
            IF i = 0 THEN Unset ELSE intercept_request(F[i - 1], visit[i])
    IN F[Len(visit)]

\* run() handing back whatever the instance holds, captured or not.
RunRaises_Never(visit) == FALSE

\* run(): the attribute read at line 33 raises when nothing was captured.
RunRaises(visit) == get_headers(visit) = Unset

CaptureDelays == {CaptureDelay}
TailDelays == {0, MaxTailDelay}

NoFetch == [page |-> 0, token |-> Unset, age |-> 0, elapsed |-> 0, kind |-> "none",
            endedAt |-> 0]
NoReturn == [tag |-> "none", df |-> <<>>]

\* ------------------------------------------------------------------ Init
Init ==
    /\ MODEL \in ParamValues
    /\ ZIPCODE \in ParamValues
    /\ DISTANCE \in ParamValues
    /\ pc = "start"
    /\ now = 0
    /\ df = <<>>
    /\ page_number = 0
    /\ headers = Unset
    /\ timer_start = 0
    /\ last_run_counter = 0
    /\ issuedAt = 0
    /\ runCalls = 0
    /\ fetchLog = <<>>
    /\ lastFetch = NoFetch
    /\ fetchesDone = 0
    /\ summary = <<>>
    /\ seenRequests = <<>>
    /\ returned = NoReturn
    /\ cancelAt = -1

\* --------------------------------------------------------------- actions

\* update_vehicles, lines 135-146, and get_all_pages up to the call of
\* WAFBypass().run() at line 86.
UpdateVehicles ==
    /\ pc = "start"
    /\ IF ~Truthy(MODEL) \/ ~Truthy(ZIPCODE) \/ ~Truthy(DISTANCE)
       THEN /\ pc' = "exited"                       \* sys.exit(...)
            /\ UNCHANGED <<df, page_number, runCalls>>
       ELSE /\ df' = <<>>
            /\ page_number' = 1
            /\ runCalls' = runCalls + 1
            /\ pc' = "acquire"
    /\ UNCHANGED <<MODEL, ZIPCODE, DISTANCE, now, headers, timer_start, last_run_counter,
                   issuedAt, fetchLog, lastFetch, returned, cancelAt, summary, seenRequests, fetchesDone>>

\* Lines 106-109 asking for the page after the one that is due.
IssueFetch_NextPage(h, iss, t, ts) ==
    /\ pc' = "fetching"
    /\ fetchLog' = Append(fetchLog, page_number + 1)
    /\ lastFetch' = [page |-> page_number + 1, token |-> h, age |-> t - iss,
                     elapsed |-> t - ts, kind |-> "pending", endedAt |-> t]

\* Lines 106-109 sending the request a second time without waiting for the
\* first answer.
IssueFetch_Twice(h, iss, t, ts) ==
    /\ pc' = "fetching"
    /\ fetchLog' = fetchLog \o <<page_number, page_number>>
    /\ lastFetch' = [page |-> page_number, token |-> h, age |-> t - iss,
                     elapsed |-> t - ts, kind |-> "pending", endedAt |-> t]

\* Lines 106-109: the call of query_toyota with credential h, captured at
\* time iss, at time t, the timer having been started at ts.
IssueFetch(h, iss, t, ts) ==
    /\ pc' = "fetching"
    /\ fetchLog' = Append(fetchLog, page_number)
    /\ lastFetch' = [page |-> page_number, token |-> h, age |-> t - iss,
                     elapsed |-> t - ts, kind |-> "pending", endedAt |-> t]

\* WAFBypass().run() at line 86 returns or raises; lines 88-92.
AcquireReturn ==
    /\ pc = "acquire"
    /\ \E visit \in Visits(runCalls), c \in CaptureDelays, t \in TailDelays :
         /\ now' = now + c + t
         /\ IF RunRaises(visit)
            THEN /\ pc' = "crashed"
                 /\ returned' = [tag |-> "exception", df |-> <<>>]
                 /\ UNCHANGED <<headers, issuedAt, timer_start, last_run_counter>>
            ELSE /\ headers' = get_headers(visit)
                 /\ issuedAt' = now + c
                 /\ timer_start' = now'
                 /\ last_run_counter' = 0
                 /\ pc' = "loop"
                 /\ UNCHANGED returned
    /\ UNCHANGED <<MODEL, ZIPCODE, DISTANCE, df, page_number, runCalls, fetchLog,
                   lastFetch, cancelAt, summary, seenRequests, fetchesDone>>

\* One pass over lines 94-109: the ceiling, the renewal check, and either the
\* call of WAFBypass().run() or the call of query_toyota.
LoopTop ==
    /\ pc = "loop"
    /\ IF PastCeiling(page_number)
       THEN /\ pc' = "returned"
            /\ returned' = [tag |-> "df", df |-> df]
            /\ UNCHANGED <<runCalls, fetchLog, lastFetch>>
       ELSE IF RenewalDue(now - timer_start)
       THEN /\ pc' = "renew"
            /\ runCalls' = runCalls + 1
            /\ UNCHANGED <<returned, fetchLog, lastFetch>>
       ELSE /\ IssueFetch(headers, issuedAt, now, timer_start)
            /\ UNCHANGED <<returned, runCalls>>
    /\ UNCHANGED <<MODEL, ZIPCODE, DISTANCE, now, df, page_number, headers, timer_start,
                   last_run_counter, issuedAt, cancelAt, summary, seenRequests, fetchesDone>>

\* Lines 103-109 with the result of run() dropped: the fetch goes out with
\* the headers of the previous acquisition.
RenewReturn_StaleHeaders ==
    /\ pc = "renew"
    /\ \E visit \in Visits(runCalls), c \in CaptureDelays, t \in TailDelays :
         /\ now' = now + c + t
         /\ IF RunRaises(visit)
            THEN /\ pc' = "crashed"
                 /\ returned' = [tag |-> "exception", df |-> <<>>]
                 /\ UNCHANGED <<timer_start, fetchLog, lastFetch>>
            ELSE /\ timer_start' = now'
                 /\ IssueFetch(headers, issuedAt, now', timer_start')
                 /\ UNCHANGED returned
    /\ UNCHANGED <<MODEL, ZIPCODE, DISTANCE, df, page_number, last_run_counter, runCalls,
                   headers, issuedAt, cancelAt, summary, seenRequests, fetchesDone>>

\* WAFBypass().run() at line 103 returns or raises; lines 104-109.
RenewReturn ==
    /\ pc = "renew"
    /\ \E visit \in Visits(runCalls), c \in CaptureDelays, t \in TailDelays :
         /\ now' = now + c + t
         /\ IF RunRaises(visit)
            THEN /\ pc' = "crashed"
                 /\ returned' = [tag |-> "exception", df |-> <<>>]
                 /\ UNCHANGED <<headers, issuedAt, timer_start, fetchLog, lastFetch>>
            ELSE /\ headers' = get_headers(visit)
                 /\ issuedAt' = now + c
                 /\ timer_start' = now'
                 /\ IssueFetch(headers', issuedAt', now', timer_start')
                 /\ UNCHANGED returned
    /\ UNCHANGED <<MODEL, ZIPCODE, DISTANCE, df, page_number, last_run_counter, runCalls,
                   cancelAt, summary, seenRequests, fetchesDone>>

\* requests.post at line 55 returns or raises; the rest of query_toyota and
\* lines 110-130 of get_all_pages up to the sleep.
FetchReturn ==
    /\ pc = "fetching"
    /\ \E resp \in Responses(df, page_number), lat \in FetchLatencies(page_number) :
         /\ now' = now + lat
         /\ lastFetch' = [lastFetch EXCEPT !.kind = Classify(resp), !.endedAt = now']
         /\ fetchesDone' = fetchesDone + 1
         /\ IF resp.kind = "exception"
            THEN /\ pc' = "crashed"
                 /\ returned' = [tag |-> "exception", df |-> <<>>]
                 /\ UNCHANGED <<df, last_run_counter, page_number>>
            ELSE LET result == query_toyota(resp)
                     merged == Merge(df, result)
                 IN /\ df' = merged
                    /\ IF Converged(merged, last_run_counter)
                       THEN /\ pc' = "returned"
                            /\ returned' = [tag |-> "df", df |-> merged]
                            /\ UNCHANGED <<last_run_counter, page_number>>
                       ELSE /\ last_run_counter' = Len(merged)
                            /\ page_number' = page_number + 1
                            /\ pc' = "sleeping"
                            /\ UNCHANGED returned
    /\ UNCHANGED <<MODEL, ZIPCODE, DISTANCE, headers, timer_start, issuedAt, runCalls,
                   fetchLog, cancelAt, summary, seenRequests>>

\* Line 129 without the sleep: the loop continues at once.
SleepDone_NoDelay ==
    /\ pc = "sleeping"
    /\ now' = now
    /\ pc' = "loop"
    /\ UNCHANGED <<MODEL, ZIPCODE, DISTANCE, df, page_number, headers, timer_start,
                   last_run_counter, issuedAt, runCalls, fetchLog, lastFetch, returned,
                   cancelAt, summary, seenRequests, fetchesDone>>

\* sleep(10) at line 129 ends; continue.
SleepDone ==
    /\ pc = "sleeping"
    /\ now' = now + InterPageDelay
    /\ pc' = "loop"
    /\ UNCHANGED <<MODEL, ZIPCODE, DISTANCE, df, page_number, headers, timer_start,
                   last_run_counter, issuedAt, runCalls, fetchLog, lastFetch, returned,
                   cancelAt, summary, seenRequests, fetchesDone>>

\* Fetches that have come back so far.
CompletedFetches == Len(fetchLog) - (IF pc = "fetching" THEN 1 ELSE 0)

\* The environment raises a stop request while the crawl runs. Nothing in
\* get_all_pages (lines 94-132) reads such a signal.
Cancel ==
    /\ pc \in {"acquire", "loop", "renew", "fetching", "sleeping"}
    /\ cancelAt = -1
    /\ CompletedFetches <= MaxCancelAt
    /\ cancelAt' = CompletedFetches
    /\ UNCHANGED <<MODEL, ZIPCODE, DISTANCE, pc, now, df, page_number, headers,
                   timer_start, last_run_counter, issuedAt, runCalls, fetchLog, lastFetch,
                   returned, summary, seenRequests, fetchesDone>>

Next ==
    \/ UpdateVehicles
    \/ AcquireReturn
    \/ LoopTop
    \/ RenewReturn
    \/ FetchReturn
    \/ SleepDone

Spec == Init /\ [][Next]_vars

\* Every blocking call comes back: requests.post within its timeout (line
\* 59), sleep after its delay (line 129), the browser visit by returning or
\* raising; the steps in between are straight-line code.
FairSpec == Spec /\ WF_vars(Next)

\* The crawl with an external stop request arriving at some point.
NextCancel ==
    \/ Next
    \/ Cancel

SpecCancel == Init /\ [][NextCancel]_vars

\* ------------------------------------------------ the merge on its own
\* Lines 110-117 applied to any accumulated frame and any vehicleSummary:
\* the vins here are not tied to the order of a crawl.
MergeVins == 1..(MaxVarVin + 1)

MergeRecords == {Rec(v, p) : v \in MergeVins, p \in Payloads}

SeqsUpTo(S, n) == UNION {[1..k -> S] : k \in 0..n}

\* Frames the loop can hold at line 109: one record per vin (line 117).
Frames == {d \in SeqsUpTo(MergeRecords, MaxPageLen) : Cardinality(Vins(d)) = Len(d)}

InitMerge ==
    /\ MODEL = "set" /\ ZIPCODE = "set" /\ DISTANCE = "set"
    /\ pc = "merge"
    /\ now = 0
    /\ df \in Frames
    /\ summary \in SeqsUpTo(MergeRecords, MaxPageLen)
    /\ page_number = 1
    /\ headers = Unset
    /\ timer_start = 0
    /\ last_run_counter = Len(df)
    /\ issuedAt = 0
    /\ runCalls = 0
    /\ fetchLog = <<>>
    /\ lastFetch = NoFetch
    /\ fetchesDone = 0
    /\ seenRequests = <<>>
    /\ returned = NoReturn
    /\ cancelAt = -1

\* Lines 110-117 for a result that carries summary.
MergeOnce ==
    /\ pc = "merge"
    /\ df' = Merge(df, query_toyota([kind |-> "ok", vehicleSummary |-> summary]))
    /\ pc' = "merged"
    /\ UNCHANGED <<MODEL, ZIPCODE, DISTANCE, now, page_number, headers, timer_start,
                   last_run_counter, issuedAt, runCalls, fetchLog, lastFetch, summary,
                   returned, cancelAt, seenRequests, fetchesDone>>

\* The same result merged a second time.
MergeAgain ==
    /\ pc = "merged"
    /\ df' = Merge(df, query_toyota([kind |-> "ok", vehicleSummary |-> summary]))
    /\ pc' = "merged twice"
    /\ UNCHANGED <<MODEL, ZIPCODE, DISTANCE, now, page_number, headers, timer_start,
                   last_run_counter, issuedAt, runCalls, fetchLog, lastFetch, summary,
                   returned, cancelAt, seenRequests, fetchesDone>>

NextMerge ==
    \/ MergeOnce
    \/ MergeAgain

SpecMerge == InitMerge /\ [][NextMerge]_vars

\* ------------------------------------------------------------ run alone
\* One call of WAFBypass().run() (vehicles.py lines 86 and 103), request by
\* request: headers holds what the acquisition before it returned, Unset for
\* the first call.
EarlierHeaders(serial) ==
    IF serial = 1 THEN {Unset}
    ELSE {[serial |-> serial - 1, seq |-> q] : q \in 1..MaxRequests}

InitRun ==
    /\ MODEL = "set" /\ ZIPCODE = "set" /\ DISTANCE = "set"
    /\ pc = "visiting"
    /\ now = 0
    /\ df = <<>>
    /\ summary = <<>>
    /\ page_number = 1
    /\ runCalls \in 1..2
    /\ headers \in EarlierHeaders(runCalls)
    /\ timer_start = 0
    /\ last_run_counter = 0
    /\ issuedAt = 0
    /\ fetchLog = <<>>
    /\ lastFetch = NoFetch
    /\ fetchesDone = 0
    /\ seenRequests = <<>>
    /\ returned = NoReturn
    /\ cancelAt = -1

\* The page makes a request during lines 22-27 of get_headers; the browser
\* hands it to intercept_request.
PageRequest ==
    /\ pc = "visiting"
    /\ Len(seenRequests) < MaxRequests
    /\ \E shape \in RequestShapes :
         seenRequests' = Append(seenRequests,
                                [resource_type |-> shape[1], graphql |-> shape[2],
                                 headers |-> [serial |-> runCalls,
                                              seq |-> Len(seenRequests) + 1]])
    /\ UNCHANGED <<MODEL, ZIPCODE, DISTANCE, pc, now, df, page_number, headers,
                   timer_start, last_run_counter, issuedAt, runCalls, fetchLog, lastFetch,
                   summary, returned, cancelAt, fetchesDone>>

\* browser.close() at line 28, then line 33: run returns valid_headers to the
\* caller or raises.
RunReturn ==
    /\ pc = "visiting"
    /\ IF RunRaises(seenRequests)
       THEN /\ pc' = "crashed"
            /\ returned' = [tag |-> "exception", df |-> <<>>]
            /\ UNCHANGED headers
       ELSE /\ pc' = "ran"
            /\ headers' = get_headers(seenRequests)
            /\ UNCHANGED returned
    /\ UNCHANGED <<MODEL, ZIPCODE, DISTANCE, now, df, page_number, timer_start,
                   last_run_counter, issuedAt, runCalls, fetchLog, lastFetch, summary,
                   seenRequests, cancelAt, fetchesDone>>

NextRun ==
    \/ PageRequest
    \/ RunReturn

SpecRun == InitRun /\ [][NextRun]_vars

\* ---------------------------------------------------------------- claims

\* C1 (as claimed): a crawl whose only failed fetch is a Blocked one does not
\* stop at the blocked page: when get_all_pages has returned below the page
\* ceiling with records from successful pages, the last page it fetched is
\* not a Blocked one (a later page was fetched after it).
C1_BlockedPageDoesNotStopCrawl ==
    (pc = "returned" /\ lastFetch.page < PageCeiling /\ Len(df) > 0)
        => lastFetch.kind # "Blocked"

\* C2 (as claimed): a fetch that ends in a network/timeout exception is a
\* TransientError value: the crawl does not abort and what was accumulated
\* is not lost.
C2_TransientErrorDoesNotAbort ==
    lastFetch.kind = "TransientError" => (pc # "crashed" /\ returned.tag # "exception")

\* C3: a round that leaves the accumulated count where it was before the
\* round ends the crawl at once: get_all_pages returns the accumulated set,
\* of unchanged size, without advancing the page or issuing another fetch,
\* and nothing happens after it has returned.
C3_Convergence ==
    [][/\ (pc = "fetching" /\ pc' # "crashed" /\ Len(df') = Len(df))
            => /\ pc' = "returned"
               /\ returned' = [tag |-> "df", df |-> df']
               /\ Len(returned'.df) = Len(df)
               /\ page_number' = page_number
               /\ fetchLog' = fetchLog
       /\ pc # "returned"]_vars

\* A crawl that ended on a page of records, every one of them known already.
C3_Witness ==
    /\ pc = "returned"
    /\ lastFetch.kind = "Success"
    /\ lastFetch.page > 1
    /\ Len(df) = last_run_counter
    /\ returned = [tag |-> "df", df |-> df]

Terminated == pc \in {"exited", "returned", "crashed"}

C4_Bounded ==
    /\ Len(fetchLog) <= PageCeiling
    /\ \A i \in 1..Len(fetchLog) : fetchLog[i] \in 1..PageCeiling
    /\ page_number <= PageCeiling + 1
    /\ (page_number > PageCeiling => pc \in {"sleeping", "loop", "returned"})
    /\ (pc = "returned" /\ page_number > PageCeiling)
           => (returned = [tag |-> "df", df |-> df] /\ Len(df) >= PageCeiling)

\* C4: the crawl asks for at most 40 pages, each of them in 1..40, also when
\* every page brings new vins; when the page index passes the ceiling,
\* get_all_pages returns the accumulated set as a normal result; and every
\* crawl comes to an end.
C4_PageCeiling == []C4_Bounded /\ <>Terminated

\* A crawl stopped by the ceiling after 40 pages of new vins.
C4_Witness ==
    /\ pc = "returned"
    /\ page_number = PageCeiling + 1
    /\ Len(fetchLog) = PageCeiling
    /\ lastFetch.kind = "Success"
    /\ returned.tag = "df"

\* C5: a renewal leaves the page index, the accumulated records and the
\* previous-round counter as they were, replaces the credential and restarts
\* the session timer, and the fetch that follows it asks for the page that
\* was due before it.
C5_RenewalPreservesProgress ==
    [][/\ (pc = "loop" /\ pc' = "renew")
            => /\ page_number' = page_number
               /\ df' = df
               /\ last_run_counter' = last_run_counter
       /\ (pc = "renew" /\ pc' # "crashed")
            => /\ page_number' = page_number
               /\ df' = df
               /\ last_run_counter' = last_run_counter
               /\ headers' # headers
               /\ timer_start' = now'
               /\ pc' = "fetching"
               /\ lastFetch'.page = page_number
               /\ lastFetch'.token = headers'
               /\ fetchLog' = Append(fetchLog, page_number)]_vars

\* A fetch issued right after a renewal in the middle of a crawl.
C5_Witness ==
    /\ pc = "fetching"
    /\ runCalls = 2
    /\ headers.serial = 2
    /\ lastFetch.elapsed = 0
    /\ lastFetch.page > 1
    /\ Len(df) = lastFetch.page - 1 + MaxRichPage

\* C6 (as claimed): no fetch is issued with a credential older, counted from
\* its capture by WAFBypass, than the renewal threshold; so none is issued
\* with a credential past its validity window.
C6_CredentialFresh ==
    pc = "fetching" => (lastFetch.age <= RenewalThreshold /\ lastFetch.age <= ValidityWindow)

\* C7: with MODEL, ZIPCODE or DISTANCE missing or empty, update_vehicles
\* exits before any call of WAFBypass.run and of query_toyota.
C7_ConfigValidation ==
    (MODEL \in {NoneValue, ""} \/ ZIPCODE \in {NoneValue, ""} \/ DISTANCE \in {NoneValue, ""})
        => (pc \in {"start", "exited"} /\ runCalls = 0 /\ fetchLog = <<>>)

\* update_vehicles has exited on an empty ZIPCODE.
C7_Witness ==
    /\ pc = "exited"
    /\ MODEL = "set"
    /\ ZIPCODE = ""
    /\ DISTANCE = "set"
    /\ runCalls = 0

\* The payload stored for vin v in s (the first record with that vin).
Stored(s, v) == s[CHOOSE i \in 1..Len(s) : s[i].vin = v /\ \A j \in 1..(i - 1) : s[j].vin # v].payload

\* The payload of the last record with vin v in s.
LastServed(s, v) == s[CHOOSE i \in 1..Len(s) : s[i].vin = v /\ \A j \in (i + 1)..Len(s) : s[j].vin # v].payload

\* Size, common to the claim and its amended form: a merge adds one record
\* per vin not yet known, so none for a vin already stored.
C8_Size == Len(df') = Cardinality(Vins(df) \cup Vins(summary))

\* C8 (as claimed): merging a record whose vin is known leaves the size
\* unchanged, merging the same records twice is merging them once, and the
\* payload stored for a merged vin is the one of the most recently merged
\* record (last write wins).
C8_LastWriteWins ==
    [][/\ pc = "merge" =>
            /\ C8_Size
            /\ \A v \in Vins(summary) : Stored(df', v) = LastServed(summary, v)
       /\ pc = "merged" => df' = df]_vars

\* C8 (amended): as above, but the payload stored for a vin is the one of the
\* first record merged with that vin (first write wins): a known vin keeps
\* its stored payload, a new vin gets the payload of its first record in the
\* merged list.
C8_FirstWriteWins ==
    [][/\ pc = "merge" =>
            /\ C8_Size
            /\ \A v \in Vins(df) : Stored(df', v) = Stored(df, v)
            /\ \A v \in Vins(summary) \ Vins(df) : Stored(df', v) = Stored(summary, v)
       /\ pc = "merged" => df' = df]_vars

\* A list that carries a known vin with a payload other than the stored one
\* has been merged, twice.
C8_Witness ==
    /\ pc = "merged twice"
    /\ Len(df) = last_run_counter
    /\ \E i \in 1..Len(summary) :
          /\ summary[i].vin \in Vins(df)
          /\ Stored(df, summary[i].vin) # summary[i].payload
          /\ \A j \in 1..Len(summary) : j # i => summary[j].vin # summary[i].vin

\* C9: no step of a crawl removes a vin from the accumulated set or makes it
\* shorter, and the set holds one record per vin at every point.
C9_MonotoneAccumulator ==
    [][/\ Vins(df) \subseteq Vins(df')
       /\ Len(df') >= Len(df)
       /\ Cardinality(Vins(df)) = Len(df)
       /\ Cardinality(Vins(df')) = Len(df')]_vars

\* A crawl that went through merges, a renewal and a last page that only
\* repeated known vins, and has returned what it accumulated.
C9_Witness ==
    /\ pc = "returned"
    /\ runCalls = 2
    /\ lastFetch.kind = "Success"
    /\ lastFetch.token.serial = 2
    /\ returned.tag = "df"
    /\ Len(returned.df) >= lastFetch.page

\* C10 (as claimed): once a stop request has been raised, at most one more
\* page fetch completes before the crawl halts.
C10_HaltsWithinOnePage ==
    cancelAt >= 0 => CompletedFetches - cancelAt <= 1

\* C11: WAFBypass.run is called once before the first fetch and afterwards
\* only at a loop head where the elapsed time is strictly above the renewal
\* threshold, one call per renewal; no page result, of any kind, leads to a
\* call by itself.
C11_MinimalAcquisition ==
    [][/\ runCalls' # runCalls
            => /\ runCalls' = runCalls + 1
               /\ \/ pc = "start" /\ runCalls = 0 /\ fetchLog = <<>>
                  \/ /\ pc = "loop" /\ pc' = "renew"
                     /\ now - timer_start > RenewalThreshold
       /\ (pc = "loop" /\ pc' = "renew") => runCalls' = runCalls + 1
       /\ fetchLog' # fetchLog => runCalls' >= 1
       /\ pc = "fetching" => runCalls' = runCalls]_vars

\* A renewal under way: the second call of run, at a loop head past the
\* threshold.
C11_Witness ==
    /\ pc = "renew"
    /\ runCalls = 2
    /\ fetchesDone > 0
    /\ now - timer_start > RenewalThreshold

\* C12: when WAFBypass.run fails, at the start or at a renewal, the crawl
\* ends with that error, run is not called again and no fetch follows; no
\* fetch is ever issued without captured headers.
C12_AcquisitionFailureIsFatal ==
    [][/\ (pc \in {"acquire", "renew"} /\ pc' = "crashed")
            => /\ returned'.tag = "exception"
               /\ runCalls' = runCalls
               /\ fetchLog' = fetchLog
       /\ pc # "crashed"
       /\ fetchLog' # fetchLog => lastFetch'.token # Unset]_vars

\* A crawl ended by a renewal that captured nothing.
C12_Witness ==
    /\ pc = "crashed"
    /\ runCalls = 2
    /\ headers.serial = 1
    /\ lastFetch.kind = "Success"
    /\ returned.tag = "exception"

\* Page results other than Success so far. A round that does not grow df
\* ends the crawl, so only the latest result can be one of them.
NonSuccessResults ==
    IF lastFetch.kind \in {"Blocked", "EmptyOrMalformed", "TransientError"} THEN 1 ELSE 0

\* The number of non-success pages the value handed back by get_all_pages
\* reports: it is the frame alone (line 132), which carries no such count.
ReportedNonSuccess(r) == IF "nonSuccess" \in DOMAIN r THEN r.nonSuccess ELSE 0

\* C13 (as claimed): what get_all_pages hands to its caller reports as many
\* blocked or empty/malformed pages as the crawl met.
C13_NonSuccessObservable ==
    pc = "returned" => ReportedNonSuccess(returned) = NonSuccessResults

\* Calls of query_toyota that have not come back.
FetchesInFlight == Len(fetchLog) - fetchesDone

\* Calls of WAFBypass.run that have not come back (the crawl not having
\* ended on an exception): headers carry the serial of the call they came from.
AcquisitionsInFlight == runCalls - headers.serial

\* C14: at most one fetch is in flight, none while an acquisition runs, and
\* a fetch or an acquisition starts only when the previous fetch has come
\* back and its merge and convergence check are done (the counter of the
\* previous round is the size of df).
C14_SequentialExclusion ==
    /\ [](/\ FetchesInFlight \in {0, 1}
          /\ pc # "crashed" => /\ AcquisitionsInFlight \in {0, 1}
                               /\ FetchesInFlight + AcquisitionsInFlight <= 1)
    /\ [][/\ fetchLog' # fetchLog
               => /\ FetchesInFlight = 0
                  /\ runCalls' - headers'.serial = 0
                  /\ last_run_counter = Len(df)
          /\ runCalls' # runCalls
               => /\ FetchesInFlight = 0
                  /\ AcquisitionsInFlight = 0
                  /\ last_run_counter = Len(df)]_vars

\* A fetch in flight after a renewal that has come back, earlier fetches done.
C14_Witness ==
    /\ FetchesInFlight = 1
    /\ AcquisitionsInFlight = 0
    /\ runCalls = 2
    /\ fetchesDone >= 2
    /\ lastFetch.kind = "pending"

\* C15: the pages asked for are 1, 2, ..., n in this order, each once; the
\* page index moves only by one step up, and only in a round that made df
\* longer.
C15_PageProgression ==
    /\ [](fetchLog = [i \in 1..Len(fetchLog) |-> i])
    /\ [][/\ fetchLog' # fetchLog => fetchLog' = Append(fetchLog, page_number)
          /\ (page_number' # page_number /\ pc # "start")
               => /\ page_number' = page_number + 1
                  /\ pc = "fetching"
                  /\ lastFetch.page = page_number
                  /\ Len(df') > Len(df)]_vars

\* The fetch of page 40 is out, after pages 1..39.
C15_Witness ==
    /\ pc = "fetching"
    /\ page_number = PageCeiling
    /\ Len(fetchLog) = PageCeiling
    /\ fetchLog[PageCeiling] = PageCeiling
    /\ fetchesDone = PageCeiling - 1

\* C16: every fetch goes out with the headers the latest call of run
\* returned; a renewal replaces the headers, and the headers it replaced go
\* with no later fetch.
C16_CurrentCredential ==
    /\ [](pc = "fetching" => (lastFetch.token = headers /\ headers.serial = runCalls))
    /\ [][/\ fetchLog' # fetchLog
               => /\ lastFetch'.token = headers'
                  /\ headers'.serial = runCalls'
                  /\ headers' # Unset
          /\ (pc = "renew" /\ pc' = "fetching")
               => /\ headers' # headers
                  /\ lastFetch'.token # headers
          /\ headers'.serial >= headers.serial]_vars

\* A fetch that carries the headers of the last request captured by the
\* renewal.
C16_Witness ==
    /\ pc = "fetching"
    /\ runCalls = 2
    /\ lastFetch.token = [serial |-> 2, seq |-> MaxRequests]
    /\ lastFetch.page > 1
    /\ fetchesDone = lastFetch.page - 1

\* Time since the last fetch came back.
SinceLastFetch == now - lastFetch.endedAt

\* At least the inter-page delay lies between the end of a fetch that made df
\* longer and the next test of the loop, the renewal test and the next fetch.
DelayBeforeNextRound ==
    /\ [](pc \in {"loop", "renew"} /\ fetchesDone > 0 => SinceLastFetch >= InterPageDelay)
    /\ [][/\ (fetchLog' # fetchLog /\ fetchesDone > 0)
               => now' - lastFetch.endedAt >= InterPageDelay
          /\ (pc = "loop" /\ pc' = "renew")
               => /\ fetchesDone > 0
                  /\ SinceLastFetch >= InterPageDelay]_vars

\* C17 as stated: the delay before the next round, and the result returned
\* with no delay after the last fetch, at convergence and at the ceiling.
C17_NoDelayAfterFinalRound ==
    /\ DelayBeforeNextRound
    /\ [](pc = "returned" => SinceLastFetch = 0)

\* C17, amended: the delay before the next round; a crawl that converges
\* returns with no delay after its last fetch; a crawl that ends at the
\* ceiling returns after the delay that followed the fetch of the last page.
C17_InterPageDelay ==
    /\ DelayBeforeNextRound
    /\ [](pc = "returned" /\ ~PastCeiling(page_number) => SinceLastFetch = 0)
    /\ [](pc = "returned" /\ PastCeiling(page_number) => SinceLastFetch = InterPageDelay)

\* A crawl returned at the ceiling, one delay after page 40 came back.
C17_Witness ==
    /\ pc = "returned"
    /\ PastCeiling(page_number)
    /\ lastFetch.page = PageCeiling
    /\ lastFetch.kind = "Success"
    /\ SinceLastFetch = InterPageDelay

\* C18: inside a loop pass, before the merge, last_run_counter is the length
\* of df and df holds at least page_number - 1 records, all with different
\* vins; a crawl that ends at the ceiling returns at least 40 records.
C18_LoopInvariant ==
    /\ pc \in {"loop", "renew", "fetching"}
         => /\ last_run_counter = Len(df)
            /\ Len(df) >= page_number - 1
            /\ Cardinality(Vins(df)) = Len(df)
    /\ (pc = "returned" /\ PastCeiling(page_number))
         => /\ returned.tag = "df"
            /\ Len(returned.df) >= PageCeiling

\* The loop starts its 41st pass with one record or more for each of the 40
\* pages behind it.
C18_Witness ==
    /\ pc = "loop"
    /\ page_number = PageCeiling + 1
    /\ last_run_counter = Len(df)
    /\ Len(df) >= PageCeiling

\* Positions in seenRequests of the GraphQL XHR requests.
Matching == {i \in 1..Len(seenRequests) : /\ seenRequests[i].resource_type = "xhr"
                                          /\ seenRequests[i].graphql}

\* C19: when the visit had no GraphQL XHR request, run raises and the caller
\* gets no headers, whatever an earlier acquisition captured; when it had
\* some, run returns the headers of the last of them, which are of this
\* visit.
C19_NoStaleCredential ==
    /\ [][(pc = "visiting" /\ pc' # "visiting")
            => IF Matching = {}
               THEN /\ pc' = "crashed"
                    /\ returned'.tag = "exception"
                    /\ headers' = headers
               ELSE /\ pc' = "ran"
                    /\ \E last \in Matching :
                         /\ \A i \in Matching : i <= last
                         /\ headers' = seenRequests[last].headers
                    /\ headers'.serial = runCalls
                    /\ headers' # headers]_vars
    /\ [](pc = "ran" => headers.serial = runCalls)

\* The second acquisition fails on a visit that made requests, none of them
\* a GraphQL XHR, while the first acquisition had captured headers.
C19_Witness ==
    /\ pc = "crashed"
    /\ runCalls = 2
    /\ headers.serial = 1
    /\ Len(seenRequests) = MaxRequests
    /\ Matching = {}
    /\ \E i \in 1..Len(seenRequests) : seenRequests[i].resource_type = "xhr"
    /\ \E i \in 1..Len(seenRequests) : seenRequests[i].graphql

====
